---- MODULE Spec2Model ----
(***************************************************************************)
(* Model of the retrieval-augmented chat pipeline of moneyfornothin.       *)
(*                                                                         *)
(*   src/app.py        : the chat application (session history, query      *)
(*                       rewriting, retrieval, prompt, completion)         *)
(*   src/appTrulens.py : the instrumented variant (CortexSearchRetriever,  *)
(*                       IRS_RAG), which keeps no history                  *)
(*                                                                         *)
(* Texts are modelled as sequences of tokens: the fixed parts of a prompt  *)
(* template are one token each, a chunk text, a question and a separator   *)
(* are one token each.  The two external services (the Cortex completion   *)
(* function and the DOCS_CHUNKS_TABLE query) are nondeterministic: a call  *)
(* either returns a value or raises.                                       *)
(***************************************************************************)
EXTENDS Integers, Sequences, FiniteSets, TLC

\* ------------------------------------------------------------------------
\* Bounds of the model
\* ------------------------------------------------------------------------
\* number of questions asked in one chat session
MaxTurns == 6

\* ------------------------------------------------------------------------
\* Program constants
\* ------------------------------------------------------------------------
\* st.session_state.setdefault('slide_window', 5)
slide_window == 5

\* LIMIT 3 of the two queries of get_similar_chunks_search_service
SearchLimit == 3

\* CortexSearchRetriever.__init__(self, session, limit_to_retrieve=3)
limit_to_retrieve == 3

\* the message answer_question / generate_completion return on failure
Apology == "Sorry, there was an error processing your question."

\* ------------------------------------------------------------------------
\* Inputs
\* ------------------------------------------------------------------------
Questions == {"q1", "q2"}

\* texts the completion service may return
CompletionTexts == {"t1"}

\* outcome of one call of Complete / snowflake.cortex.complete
CompleteOutcomes ==
  {[ok |-> TRUE, text |-> t] : t \in CompletionTexts} \cup {[ok |-> FALSE, text |-> ""]}

Row(chunk, path, cat) == [CHUNK |-> chunk, RELATIVE_PATH |-> path, CATEGORY |-> cat]

r1 == Row("c1", "p1", "deductions")
r2 == Row("c2", "p1", "deductions")
r3 == Row("c3", "p2", "credits")
r4 == Row("c4", "p3", "deductions")
r5 == Row("c1", "p4", "deductions")

\* contents of DOCS_CHUNKS_TABLE, in storage order
Tables ==
  { <<>>,
    <<r1, r3>>,
    <<r3, r1, r2, r4, r5>> }

Max(a, b) == IF a >= b THEN a ELSE b
Min(a, b) == IF a <= b THEN a ELSE b

Range(s) == {s[i] : i \in 1..Len(s)}

IsSuffix(s, t) ==
  /\ Len(s) <= Len(t)
  /\ \A i \in 1..Len(s) : s[i] = t[Len(t) - Len(s) + i]

IsPrefix(s, t) ==
  /\ Len(s) <= Len(t)
  /\ \A i \in 1..Len(s) : s[i] = t[i]

\* ------------------------------------------------------------------------
\* State
\* ------------------------------------------------------------------------
VARIABLES
  chat_history,      \* st.session_state.chat_history
  category_value,    \* st.session_state.category_value
  use_context,       \* st.session_state.use_context
  docs_chunks_table, \* rows of IRS_PUBS_CORTEX_SEARCH_DOCS.DATA.DOCS_CHUNKS_TABLE
  pc,                \* position of the running script
  question,          \* the question of the turn being processed
  call_log,          \* external calls made in this turn, in order
  snapshot,          \* what get_chat_history returned to create_prompt
  retrieval_query,   \* the argument of the retriever
  context_chunks,    \* rows the retriever returned
  prompt,            \* the prompt given to the answer completion
  response,          \* what answer_question / query returned
  relative_paths,    \* the paths answer_question returned
  sidebar_paths,     \* the paths shown under "Related Documents"
  run_tests,         \* st.session_state.run_tests (src/appTrulens.py only)
  history_before,    \* chat_history as main found it when the question came in
  paired_run         \* a second run on the same table, for comparing two runs

vars == <<chat_history, category_value, use_context, docs_chunks_table, pc,
          question, call_log, snapshot, retrieval_query, context_chunks,
          prompt, response, relative_paths, sidebar_paths, run_tests,
          history_before, paired_run>>

session_state == <<chat_history, category_value, use_context>>
turn_state == <<question, call_log, snapshot, retrieval_query, context_chunks,
                prompt, response, relative_paths, sidebar_paths>>

\* ------------------------------------------------------------------------
\* src/app.py : chat history
\* ------------------------------------------------------------------------
Message(role, content) == [role |-> role, content |-> content]

\* an append that also trims from the front, keeping 2 * slide_window messages
append_trimmed(hist, message) ==
  LET h == Append(hist, message)
  IN  IF Len(h) > 2 * slide_window
        THEN SubSeq(h, Len(h) - 2 * slide_window + 1, Len(h))
        ELSE h

\* list.append of st.session_state.chat_history
append(hist, message) == Append(hist, message)

\* a read that forgets the window
get_chat_history_unbounded(hist) == hist

\* the last slide_window messages of the stored history
get_chat_history(hist) ==
  LET start_index == Max(0, Len(hist) - slide_window)
  IN  SubSeq(hist, start_index + 1, Len(hist))

\* ------------------------------------------------------------------------
\* src/app.py : query rewriting
\* ------------------------------------------------------------------------
\* a rewrite without the fallback of the except branch
summarize_without_fallback(chat_hist, q, outcome) == outcome.text

\* outcome is what Complete did: returned outcome.text, or raised
summarize_question_with_history(chat_hist, q, outcome) ==
  IF outcome.ok THEN outcome.text ELSE q

\* ------------------------------------------------------------------------
\* The chunk table and its query engine
\* ------------------------------------------------------------------------
AllCategories == "ALL"

\* no WHERE clause
NoFilter == "*"

Categories(table) == {table[i].CATEGORY : i \in 1..Len(table)}

RECURSIVE PickRows(_, _)
PickRows(rows, S) ==
  IF S = {} THEN <<>>
  ELSE LET i == CHOOSE x \in S : \A y \in S : x <= y
       IN  <<rows[i]>> \o PickRows(rows, S \ {i})

\* WHERE category = '<filter>'
Where(table, filter) ==
  IF filter = NoFilter THEN table
  ELSE LET keep(row) == row.CATEGORY = filter IN SelectSeq(table, keep)

\* LIMIT n without ORDER BY: any n of the rows (all of them when there are
\* fewer), here in storage order
Limit(rows, n) ==
  {PickRows(rows, S) : S \in {T \in SUBSET (1..Len(rows)) : Cardinality(T) = Min(n, Len(rows))}}

\* session.sql(stmt).collect(): the results the engine may return for
\* SELECT * FROM DOCS_CHUNKS_TABLE [WHERE category = stmt.filter] LIMIT stmt.limit
Collect(table, stmt) ==
  {[ok |-> TRUE, rows |-> rows] : rows \in Limit(Where(table, stmt.filter), stmt.limit)}
    \cup {[ok |-> FALSE, rows |-> <<>>]}

\* ------------------------------------------------------------------------
\* src/app.py : retrieval
\* ------------------------------------------------------------------------
\* a statement that drops the WHERE clause
search_statement_unfiltered(query, category) ==
  [filter |-> NoFilter, limit |-> SearchLimit]

\* a statement that carries the query text to the engine
search_statement_by_query(query, category) ==
  IF category = AllCategories
    THEN [filter |-> NoFilter, limit |-> SearchLimit, text |-> query]
    ELSE [filter |-> category, limit |-> SearchLimit, text |-> query]

\* the statement get_similar_chunks_search_service sends; the query text is
\* not part of it
search_statement(query, category) ==
  IF category = AllCategories
    THEN [filter |-> NoFilter, limit |-> SearchLimit]
    ELSE [filter |-> category, limit |-> SearchLimit]

\* outcome is what session.sql(...).collect() did
get_similar_chunks_search_service(query, outcome) ==
  IF outcome.ok THEN outcome.rows ELSE <<>>

\* ------------------------------------------------------------------------
\* src/app.py : prompt
\* ------------------------------------------------------------------------
Preamble == "You are an expert IRS tax assistant"
ContextHeader == "CONTEXT:"
QuestionHeader == "QUESTION:"
Instructions == "INSTRUCTIONS:"
Separator == "\n\n"

\* sep.join(texts)
RECURSIVE Join(_, _)
Join(texts, sep) ==
  IF Len(texts) = 0 THEN <<>>
  ELSE IF Len(texts) = 1 THEN <<texts[1]>>
  ELSE <<texts[1], sep>> \o Join(Tail(texts), sep)

ChunkTexts(rows) == [i \in 1..Len(rows) |-> rows[i].CHUNK]

\* the prompt text of create_prompt
prompt_template(q, rows) ==
  LET prompt_context == Join(ChunkTexts(rows), Separator)
  IN  <<Preamble, ContextHeader>> \o prompt_context \o <<QuestionHeader, q, Instructions>>

\* set(row.RELATIVE_PATH for row in context_chunks)
source_paths(rows) == {rows[i].RELATIVE_PATH : i \in 1..Len(rows)}

\* ------------------------------------------------------------------------
\* src/app.py : answer
\* ------------------------------------------------------------------------
\* an answer that returns the paths as a list cut to its first entry
answer_question_first_path(paths, outcome) ==
  IF outcome.ok
    THEN [response |-> outcome.text,
          relative_paths |-> IF paths = {} THEN {} ELSE {CHOOSE p \in paths : TRUE}]
    ELSE [response |-> Apology, relative_paths |-> {}]

\* outcome is what Complete did for the final prompt
answer_question(paths, outcome) ==
  IF outcome.ok
    THEN [response |-> outcome.text, relative_paths |-> paths]
    ELSE [response |-> Apology, relative_paths |-> {}]

Call(name, ok, out) == [call |-> name, ok |-> ok, out |-> out]

\* ------------------------------------------------------------------------
\* src/app.py : one run of main() for a question, step by step
\* ------------------------------------------------------------------------
NoRun ==
  [question |-> "", retrieval_query |-> "", context_chunks |-> <<>>,
   prompt |-> <<>>, relative_paths |-> {}]

NoTurn ==
  /\ question = ""
  /\ call_log = <<>>
  /\ snapshot = <<>>
  /\ retrieval_query = ""
  /\ context_chunks = <<>>
  /\ prompt = <<>>
  /\ response = ""
  /\ relative_paths = {}
  /\ sidebar_paths = {}

Init ==
  /\ chat_history = <<>>
  /\ category_value = AllCategories
  /\ use_context = FALSE
  /\ docs_chunks_table \in Tables
  /\ pc = "idle"
  /\ run_tests = FALSE
  /\ history_before = <<>>
  /\ paired_run = NoRun
  /\ NoTurn

\* main: config_options(), then st.chat_input returns q and the user
\* message is appended
Ask ==
  /\ pc = "idle"
  /\ Len(chat_history) < 2 * MaxTurns
  /\ \E q \in Questions, cat \in {AllCategories} \cup Categories(docs_chunks_table),
        ctx \in BOOLEAN :
       /\ category_value' = cat
       /\ use_context' = ctx
       /\ chat_history' = append(chat_history, Message("user", q))
       /\ question' = q
  /\ history_before' = chat_history
  /\ call_log' = <<>>
  /\ snapshot' = <<>>
  /\ retrieval_query' = ""
  /\ context_chunks' = <<>>
  /\ prompt' = <<>>
  /\ response' = ""
  /\ relative_paths' = {}
  /\ sidebar_paths' = {}
  /\ pc' = "create_prompt"
  /\ UNCHANGED <<docs_chunks_table, paired_run, run_tests>>

\* create_prompt: chat_history = get_chat_history(); if chat_history: ...
ReadHistory ==
  /\ pc = "create_prompt"
  /\ snapshot' = get_chat_history(chat_history)
  /\ IF snapshot' # <<>>
       THEN /\ pc' = "summarize"
            /\ UNCHANGED retrieval_query
       ELSE /\ pc' = "retrieve"
            /\ retrieval_query' = question
  /\ UNCHANGED <<session_state, docs_chunks_table, paired_run, run_tests, history_before, question, call_log,
                 context_chunks, prompt, response, relative_paths, sidebar_paths>>

\* create_prompt: question_summary = summarize_question_with_history(...)
Summarize ==
  /\ pc = "summarize"
  /\ \E outcome \in CompleteOutcomes :
       /\ retrieval_query' = summarize_question_with_history(snapshot, question, outcome)
       /\ call_log' = Append(call_log, Call("summarize", outcome.ok, outcome.text))
  /\ pc' = "retrieve"
  /\ UNCHANGED <<session_state, docs_chunks_table, paired_run, run_tests, history_before, question, snapshot,
                 context_chunks, prompt, response, relative_paths, sidebar_paths>>

\* create_prompt: context_chunks = get_similar_chunks_search_service(...)
Retrieve ==
  /\ pc = "retrieve"
  /\ \E outcome \in Collect(docs_chunks_table,
                            search_statement(retrieval_query, category_value)) :
       /\ context_chunks' = get_similar_chunks_search_service(retrieval_query, outcome)
       /\ call_log' = Append(call_log, Call("retrieve", outcome.ok, retrieval_query))
  /\ pc' = "build"
  /\ UNCHANGED <<session_state, docs_chunks_table, paired_run, run_tests, history_before, question, snapshot,
                 retrieval_query, prompt, response, relative_paths, sidebar_paths>>

\* create_prompt: the prompt text
BuildPrompt ==
  /\ pc = "build"
  /\ prompt' = prompt_template(question, context_chunks)
  /\ pc' = "complete"
  /\ UNCHANGED <<session_state, docs_chunks_table, paired_run, run_tests, history_before, question, call_log, snapshot,
                 retrieval_query, context_chunks, response, relative_paths,
                 sidebar_paths>>

\* answer_question: Complete(model, prompt) and its except branch
AnswerQuestion ==
  /\ pc = "complete"
  /\ \E outcome \in CompleteOutcomes :
       LET result == answer_question(source_paths(context_chunks), outcome)
       IN  /\ response' = result.response
           /\ relative_paths' = result.relative_paths
           /\ call_log' = Append(call_log, Call("answer", outcome.ok, outcome.text))
  /\ pc' = "display"
  /\ UNCHANGED <<session_state, docs_chunks_table, paired_run, run_tests, history_before, question, snapshot,
                 retrieval_query, context_chunks, prompt, sidebar_paths>>

\* main: the response is shown, the related documents are listed and the
\* assistant message is appended
Display ==
  /\ pc = "display"
  /\ sidebar_paths' = relative_paths
  /\ chat_history' = append(chat_history, Message("assistant", response))
  /\ pc' = "idle"
  /\ UNCHANGED <<category_value, use_context, docs_chunks_table, paired_run, run_tests, history_before, question, call_log,
                 snapshot, retrieval_query, context_chunks, prompt, response,
                 relative_paths>>

Next ==
  \/ Ask
  \/ ReadHistory
  \/ Summarize
  \/ Retrieve
  \/ BuildPrompt
  \/ AnswerQuestion
  \/ Display

Spec == Init /\ [][Next]_vars

\* ------------------------------------------------------------------------
\* src/appTrulens.py : CortexSearchRetriever and IRS_RAG
\* ------------------------------------------------------------------------
ContextIntro == "Below is CONTEXT extracted from IRS documents."
InstructionsWithContext == "INSTRUCTIONS: (context)"
InstructionsNoContext == "INSTRUCTIONS: (no context)"
AnswerCue == "Answer:"

\* the prompts run_tests sends
TEST_PROMPTS == Questions

\* the statement CortexSearchRetriever.retrieve sends
retrieve_statement(query, category) ==
  IF category = AllCategories
    THEN [filter |-> NoFilter, limit |-> limit_to_retrieve]
    ELSE [filter |-> category, limit |-> limit_to_retrieve]

\* CortexSearchRetriever.retrieve has no handler: a failing query raises
retrieve(query, outcome) ==
  IF outcome.ok
    THEN [raised |-> FALSE, rows |-> outcome.rows]
    ELSE [raised |-> TRUE, rows |-> <<>>]

\* the prompt text of IRS_RAG.generate_completion
completion_prompt(query, context_response) ==
  IF context_response # <<>>
    THEN LET prompt_context == Join(ChunkTexts(context_response), Separator)
         IN  <<Preamble, ContextIntro, ContextHeader>> \o prompt_context
               \o <<QuestionHeader, query, InstructionsWithContext, AnswerCue>>
    ELSE <<Preamble, QuestionHeader, query, InstructionsNoContext, AnswerCue>>

\* outcome is what snowflake.cortex.complete did
generate_completion(outcome) ==
  IF outcome.ok THEN outcome.text ELSE Apology

\* main: config_options(); then either run_tests() takes its next prompt or
\* st.text_input returns q
TrulensAsk ==
  /\ pc \in {"idle", "aborted"}
  /\ \E cat \in {AllCategories} \cup Categories(docs_chunks_table),
        ctx \in BOOLEAN, tests \in BOOLEAN :
       /\ category_value' = cat
       /\ use_context' = ctx
       /\ run_tests' = tests
       /\ \E q \in (IF tests THEN TEST_PROMPTS ELSE Questions) : question' = q
  /\ call_log' = <<>>
  /\ snapshot' = <<>>
  /\ retrieval_query' = ""
  /\ context_chunks' = <<>>
  /\ prompt' = <<>>
  /\ response' = ""
  /\ relative_paths' = {}
  /\ sidebar_paths' = {}
  /\ pc' = "rag_retrieve"
  /\ UNCHANGED <<chat_history, docs_chunks_table, paired_run, history_before>>

\* IRS_RAG.query: context_response = self.retrieve_context(query).  An
\* exception leaves query and main; only run_tests catches it.
TrulensRetrieve ==
  /\ pc = "rag_retrieve"
  /\ retrieval_query' = question
  /\ \E outcome \in Collect(docs_chunks_table,
                            retrieve_statement(question, category_value)) :
       LET result == retrieve(question, outcome)
       IN  /\ context_chunks' = result.rows
           /\ call_log' = Append(call_log, Call("retrieve", outcome.ok, question))
           /\ pc' = IF ~result.raised THEN "rag_generate"
                    ELSE IF run_tests THEN "idle" ELSE "aborted"
  /\ UNCHANGED <<session_state, docs_chunks_table, paired_run, run_tests, history_before, question, snapshot,
                 prompt, response, relative_paths, sidebar_paths>>

\* IRS_RAG.query: return self.generate_completion(query, context_response);
\* main or run_tests writes the response
TrulensGenerate ==
  /\ pc = "rag_generate"
  /\ prompt' = completion_prompt(question, context_chunks)
  /\ \E outcome \in CompleteOutcomes :
       /\ response' = generate_completion(outcome)
       /\ call_log' = Append(call_log, Call("answer", outcome.ok, outcome.text))
  /\ pc' = "idle"
  /\ UNCHANGED <<session_state, docs_chunks_table, paired_run, run_tests, history_before, question, snapshot,
                 retrieval_query, context_chunks, relative_paths, sidebar_paths>>

NextTrulens ==
  \/ TrulensAsk
  \/ TrulensRetrieve
  \/ TrulensGenerate

SpecTrulens == Init /\ [][NextTrulens]_vars

\* ------------------------------------------------------------------------
\* Observations used by the properties
\* ------------------------------------------------------------------------
Called(name) == \E i \in 1..Len(call_log) : call_log[i].call = name
CallFailed(name) == \E i \in 1..Len(call_log) : call_log[i].call = name /\ ~call_log[i].ok
CallSucceeded(name) == \E i \in 1..Len(call_log) : call_log[i].call = name /\ call_log[i].ok

\* a run of main that handled a question has finished
TurnDone == pc = "idle" /\ question # ""

HasContextSection(p) == \E i \in 1..Len(p) : p[i] = ContextHeader

\* ------------------------------------------------------------------------
\* C1: when the completion call that produces the answer fails, the fixed
\* apology is returned and the history is as long after the turn as before
\* it (neither the question nor the apology is appended).
\* ------------------------------------------------------------------------
C1_FailedTurnNotRecorded ==
  (TurnDone /\ CallFailed("answer")) =>
    /\ response = Apology
    /\ Len(chat_history) = Len(history_before)

\* ------------------------------------------------------------------------
\* C2: the snapshot get_chat_history hands to the pipeline is never longer
\* than 2 * slide_window and is a suffix of the stored history, after every
\* append.
\* ------------------------------------------------------------------------
C2_SnapshotBoundedSuffix ==
  /\ Len(get_chat_history(chat_history)) <= 2 * slide_window
  /\ IsSuffix(get_chat_history(chat_history), chat_history)
  /\ pc \in {"summarize", "retrieve", "build", "complete", "display"} =>
       /\ Len(snapshot) <= 2 * slide_window
       /\ IsSuffix(snapshot, chat_history)

\* a turn reads its snapshot from a history longer than 2 * slide_window
C2_Witness ==
  /\ pc = "summarize"
  /\ Len(chat_history) > 2 * slide_window
  /\ Len(snapshot) = slide_window
  /\ snapshot[Len(snapshot)] = Message("user", question)

C4_FirstTurnNoRewrite ==
  (question # "" /\ history_before = <<>>) =>
    /\ ~Called("summarize")
    /\ Called("retrieve") => retrieval_query = question
    /\ (TurnDone /\ CallSucceeded("answer")) => Len(chat_history) = 2

\* ------------------------------------------------------------------------
\* C5: when use_context is false the retriever is not invoked, the prompt
\* has no context section and no source paths are returned or displayed.
\* ------------------------------------------------------------------------
C5_ContextDisabled ==
  (question # "" /\ ~use_context) =>
    /\ ~Called("retrieve")
    /\ ~HasContextSection(prompt)
    /\ relative_paths = {}
    /\ sidebar_paths = {}

\* ------------------------------------------------------------------------
\* The two retrievers as functions of table, category and query
\* ------------------------------------------------------------------------
Queries == Questions \cup CompletionTexts

\* get_similar_chunks_search_service(q) under category cat
SearchApp ==
  /\ pc \in {"idle", "searched_app", "searched_trulens", "search_raised"}
  /\ \E q \in Queries, cat \in {AllCategories} \cup Categories(docs_chunks_table) :
       /\ category_value' = cat
       /\ retrieval_query' = q
       /\ \E outcome \in Collect(docs_chunks_table, search_statement(q, cat)) :
            /\ context_chunks' = get_similar_chunks_search_service(q, outcome)
            /\ call_log' = <<Call("retrieve", outcome.ok, q)>>
  /\ pc' = "searched_app"
  /\ UNCHANGED <<chat_history, use_context, docs_chunks_table, paired_run, question, snapshot,
                 prompt, response, relative_paths, sidebar_paths, run_tests,
                 history_before>>

\* CortexSearchRetriever.retrieve(q, cat)
SearchTrulens ==
  /\ pc \in {"idle", "searched_app", "searched_trulens", "search_raised"}
  /\ \E q \in Queries, cat \in {AllCategories} \cup Categories(docs_chunks_table) :
       /\ category_value' = cat
       /\ retrieval_query' = q
       /\ \E outcome \in Collect(docs_chunks_table, retrieve_statement(q, cat)) :
            LET result == retrieve(q, outcome)
            IN  /\ context_chunks' = result.rows
                /\ call_log' = <<Call("retrieve", outcome.ok, q)>>
                /\ pc' = IF result.raised THEN "search_raised" ELSE "searched_trulens"
  /\ UNCHANGED <<chat_history, use_context, docs_chunks_table, paired_run, question, snapshot,
                 prompt, response, relative_paths, sidebar_paths, run_tests,
                 history_before>>

NextRetriever ==
  \/ SearchApp
  \/ SearchTrulens

SpecRetriever == Init /\ [][NextRetriever]_vars

\* ------------------------------------------------------------------------
\* C6: the prompt has no context section when the chunk list is empty; with
\* chunks it holds every chunk's text once, in retrieval order, and the
\* verbatim question.
\* ------------------------------------------------------------------------
ChunkTextSet == UNION {Range(ChunkTexts(t)) : t \in Tables}

C6_PromptContext ==
  LET IsChunkText(token) == token \in ChunkTextSet
      IsQuestion(token) == token \in Questions
  IN  prompt # <<>> =>
        /\ context_chunks = <<>> => ~HasContextSection(prompt)
        /\ context_chunks # <<>> =>
             /\ SelectSeq(prompt, IsChunkText) = ChunkTexts(context_chunks)
             /\ SelectSeq(prompt, IsQuestion) = <<question>>

\* ------------------------------------------------------------------------
\* C7: a retriever returns at most its limit of chunks; with a category
\* other than ALL every chunk has exactly that category; with ALL no filter
\* is applied (rows of every category count towards the limit).
\* ------------------------------------------------------------------------
C7_RetrieverBoundedFiltered ==
  pc \in {"searched_app", "searched_trulens"} =>
    LET limit == IF pc = "searched_app" THEN SearchLimit ELSE limit_to_retrieve
    IN  /\ Len(context_chunks) <= limit
        /\ Range(context_chunks) \subseteq Range(docs_chunks_table)
        /\ category_value # AllCategories =>
             \A i \in 1..Len(context_chunks) : context_chunks[i].CATEGORY = category_value
        /\ (category_value = AllCategories /\ CallSucceeded("retrieve")) =>
             Len(context_chunks) = Min(limit, Len(docs_chunks_table))

\* a filtered search on a table with more matching rows than the limit
C7_Witness ==
  /\ pc = "searched_app"
  /\ category_value = "deductions"
  /\ Len(Where(docs_chunks_table, "deductions")) > SearchLimit
  /\ Len(context_chunks) = SearchLimit
  /\ Categories(docs_chunks_table) # {"deductions"}

\* ------------------------------------------------------------------------
\* C8: when the chunk lookup fails the retriever yields no chunks and the
\* turn is not aborted: a prompt is built, the completion is called and the
\* turn ends with an answer.
\* ------------------------------------------------------------------------
C8_RetrievalFailureDegrades ==
  CallFailed("retrieve") =>
    /\ context_chunks = <<>>
    /\ pc # "aborted"
    /\ TurnDone => (Called("answer") /\ prompt # <<>> /\ response # "")

\* ------------------------------------------------------------------------
\* C9: when the summarization call fails in a turn with history, the
\* retrieval query is the raw question, nothing propagates, and the turn
\* goes through retrieval, prompt building and the answer completion.
\* ------------------------------------------------------------------------
C9_RewriteFailureFallsBack ==
  CallFailed("summarize") =>
    /\ snapshot # <<>>
    /\ retrieval_query = question
    /\ pc \in {"retrieve", "build", "complete", "display", "idle"}
    /\ \A i \in 1..Len(call_log) :
         call_log[i].call = "retrieve" => call_log[i].out = question
    /\ pc \in {"complete", "display", "idle"} =>
         prompt = prompt_template(question, context_chunks)
    /\ TurnDone =>
         /\ [i \in 1..Len(call_log) |-> call_log[i].call] = <<"summarize", "retrieve", "answer">>
         /\ response # ""

\* a turn after an earlier exchange whose rewrite failed and which was answered
C9_Witness ==
  /\ TurnDone
  /\ history_before # <<>>
  /\ CallFailed("summarize")
  /\ CallSucceeded("answer")
  /\ context_chunks # <<>>

\* ------------------------------------------------------------------------
\* C10: a turn whose answer completion succeeds appends exactly the user
\* question and then the assistant answer, the answer being the completion
\* output unchanged; it returns that answer with the set of distinct source
\* paths of the retrieved chunks.  Between turns the history alternates
\* user, assistant, starting with user.
\* ------------------------------------------------------------------------
AllPaths == UNION {{t[i].RELATIVE_PATH : i \in 1..Len(t)} : t \in Tables}

C10_SuccessfulTurnRecorded ==
  /\ (pc \in {"display", "idle"} /\ CallSucceeded("answer")) =>
       LET out == call_log[Len(call_log)].out
       IN  /\ response = out
           /\ \A p \in AllPaths :
                p \in relative_paths <=>
                  \E i \in 1..Len(context_chunks) : context_chunks[i].RELATIVE_PATH = p
           /\ relative_paths \subseteq AllPaths
           /\ sidebar_paths = IF pc = "idle" THEN relative_paths ELSE {}
           /\ TurnDone =>
                chat_history = history_before
                                 \o <<Message("user", question), Message("assistant", out)>>
  /\ pc = "idle" =>
       \A i \in 1..Len(chat_history) :
         chat_history[i].role = IF i % 2 = 1 THEN "user" ELSE "assistant"

\* a successful second turn whose three chunks come from two documents
C10_Witness ==
  /\ TurnDone
  /\ CallSucceeded("answer")
  /\ Len(history_before) >= 2
  /\ Len(context_chunks) = 3
  /\ Cardinality(relative_paths) = 2

\* ------------------------------------------------------------------------
\* Two runs on the same table and category with different retrieval queries
\* ------------------------------------------------------------------------
\* the engine in the second run: the same statement on the same table gets
\* the answer the first run got, another statement any answer it allows
SameEngine(table, stmt_a, outcome_a, stmt_b) ==
  IF stmt_a = stmt_b THEN {outcome_a} ELSE Collect(table, stmt_b)

\* the tokens of a prompt between its CONTEXT: and QUESTION: headers
ContextPart(p) ==
  IF ~HasContextSection(p) THEN <<>>
  ELSE LET from == CHOOSE i \in 1..Len(p) : p[i] = ContextHeader
           to == CHOOSE j \in 1..Len(p) : p[j] = QuestionHeader
       IN  SubSeq(p, from + 1, to - 1)

Run(q, query, rows, text, paths) ==
  [question |-> q, retrieval_query |-> query, context_chunks |-> rows,
   prompt |-> text, relative_paths |-> paths]

\* create_prompt twice: questions qa and qb, each retrieving with the raw
\* question or with a rewritten query, the two retrieval queries differing
PairApp ==
  /\ pc \in {"idle", "paired_app", "paired_trulens"}
  /\ \E qa \in Questions, qb \in Questions,
        cat \in {AllCategories} \cup Categories(docs_chunks_table) :
       \E ra \in {qa} \cup CompletionTexts, rb \in {qb} \cup CompletionTexts :
         /\ ra # rb
         /\ \E oa \in Collect(docs_chunks_table, search_statement(ra, cat)) :
              \E ob \in SameEngine(docs_chunks_table, search_statement(ra, cat), oa,
                                   search_statement(rb, cat)) :
                LET rows_a == get_similar_chunks_search_service(ra, oa)
                    rows_b == get_similar_chunks_search_service(rb, ob)
                IN  /\ category_value' = cat
                    /\ question' = qa
                    /\ retrieval_query' = ra
                    /\ context_chunks' = rows_a
                    /\ prompt' = prompt_template(qa, rows_a)
                    /\ relative_paths' = source_paths(rows_a)
                    /\ call_log' = <<Call("retrieve", oa.ok, ra)>>
                    /\ paired_run' = Run(qb, rb, rows_b, prompt_template(qb, rows_b),
                                         source_paths(rows_b))
  /\ pc' = "paired_app"
  /\ UNCHANGED <<chat_history, use_context, docs_chunks_table, snapshot, response,
                 sidebar_paths, run_tests, history_before>>

\* IRS_RAG.query twice, for two different questions; a raising retrieve
\* leaves the run without chunks and without a prompt, and query returns no
\* paths
PairTrulens ==
  /\ pc \in {"idle", "paired_app", "paired_trulens"}
  /\ \E qa \in Questions, qb \in Questions,
        cat \in {AllCategories} \cup Categories(docs_chunks_table) :
       /\ qa # qb
       /\ \E oa \in Collect(docs_chunks_table, retrieve_statement(qa, cat)) :
            \E ob \in SameEngine(docs_chunks_table, retrieve_statement(qa, cat), oa,
                                 retrieve_statement(qb, cat)) :
              LET result_a == retrieve(qa, oa)
                  result_b == retrieve(qb, ob)
              IN  /\ category_value' = cat
                  /\ question' = qa
                  /\ retrieval_query' = qa
                  /\ context_chunks' = result_a.rows
                  /\ prompt' = IF result_a.raised THEN <<>>
                               ELSE completion_prompt(qa, result_a.rows)
                  /\ relative_paths' = {}
                  /\ call_log' = <<Call("retrieve", oa.ok, qa)>>
                  /\ paired_run' = Run(qb, qb, result_b.rows,
                                       IF result_b.raised THEN <<>>
                                       ELSE completion_prompt(qb, result_b.rows),
                                       {})
  /\ pc' = "paired_trulens"
  /\ UNCHANGED <<chat_history, use_context, docs_chunks_table, snapshot, response,
                 sidebar_paths, run_tests, history_before>>

NextPair ==
  \/ PairApp
  \/ PairTrulens

SpecPair == Init /\ [][NextPair]_vars

====
